---- MODULE Spec2Model ----
(***************************************************************************)
(* Model of the deployment pipeline (DeploymentPipeline, deployment-       *)
(* Pipeline.js) of DeployGenie.  One action is one run of JavaScript code  *)
(* between two suspension points (await of a collaborator call): the       *)
(* event loop runs such a piece without interleaving.                      *)
(***************************************************************************)
EXTENDS Integers, Sequences, FiniteSets, TLC

VARIABLES
  activeDeployments,   \* keys of DeploymentPipeline.activeDeployments
  deploymentHistory,   \* keys of DeploymentPipeline.deploymentHistory
  deployments,         \* the deployment objects the two maps refer to
  events,              \* per deployment id, the updates given to notifySubscribers
  pc,                  \* per deployment id, where the executeDeployment task is suspended
  cancelInFlight,      \* per deployment id, cancelDeployment calls awaiting the cancel request
  cancelUpdating,      \* per deployment id, a cancelDeployment call awaits updateProject
  cancelsStarted,      \* per deployment id, number of cancelDeployment calls made
  serverDeployments,   \* the list the API returns for getDeployments(projectId)
  rollbackCalls,       \* per deployment id, targets given to apiService.rollbackDeployment
  projectUpdates,      \* per deployment id, statuses given to apiService.updateProject
  healthMonitor,       \* the HealthMonitor instance, its checks and its requests
  errorLog             \* errors given to errorHandler.handleError by the pipeline

vars == <<activeDeployments, deploymentHistory, deployments, events, pc,
          cancelInFlight, cancelUpdating, cancelsStarted, serverDeployments,
          rollbackCalls, projectUpdates, healthMonitor, errorLog>>

----------------------------------------------------------------------------
\* Bounds of the model

MaxCancels == 1
MaxServerDeployments == 2
MaxChecks == 3
MaxStarts == 2

DeploymentIds == {"dep-1"}
PriorIds == {"old-1"}
WidePriorIds == PriorIds \cup {"old-2"}
ProviderInputs == {"vercel", "aws", "heroku"}
WideProviderInputs == ProviderInputs \cup {"netlify"}
FrameworkInputs == {"nextjs", "rails"}
RollbackIds == {"rb-1"}
MonitorIds == DeploymentIds \cup RollbackIds
StatusInputs == {"running", "failed"}
FlagInputs == {"unset", "true", "false"}

----------------------------------------------------------------------------
\* Constants of the program

DEPLOYMENT_STAGES ==
  [INITIALIZING |-> "initializing", CLONING |-> "cloning",
   ANALYZING |-> "analyzing", INSTALLING |-> "installing",
   BUILDING |-> "building", TESTING |-> "testing",
   CONTAINERIZING |-> "containerizing", PUSHING |-> "pushing",
   DEPLOYING |-> "deploying", HEALTH_CHECK |-> "health_check",
   SUCCESS |-> "success", FAILED |-> "failed",
   ROLLING_BACK |-> "rolling_back"]

\* The keys of FRAMEWORK_CONFIGS
FRAMEWORK_CONFIGS == {"react", "nextjs", "vue", "nodejs", "python"}

CLOUD_PROVIDERS ==
  [vercel |-> [type |-> "serverless", supports |-> {"react", "nextjs", "vue"}],
   netlify |-> [type |-> "static", supports |-> {"react", "vue"}],
   aws |-> [type |-> "container", supports |-> FRAMEWORK_CONFIGS],
   gcp |-> [type |-> "container", supports |-> FRAMEWORK_CONFIGS],
   digitalocean |-> [type |-> "container", supports |-> FRAMEWORK_CONFIGS]]

LogCap == 1000
maxLogSize == 100
maxRetries == 3
expectedStatus == 200
ResponseTimeCap == 100
NotGiven == 0
NoHealthResult == 0
NoUptime == -1
NoMetrics == [status |-> "null"]
historyLimit == 50
HealthStatusInputs == {expectedStatus, 500}
WideStatusInputs == StatusInputs \cup {"error", "building", "queued"}
WideHealthStatusInputs == HealthStatusInputs \cup {204}
MaxRetriesInputs == {NotGiven, 1}
EvalOptions ==
  [healthEndpoint : BOOLEAN, autoRollback : BOOLEAN, maxRetries : MaxRetriesInputs,
   expectedStatus : {NotGiven, 204}]

StageNames ==
  {"initializing", "cloning", "analyzing", "installing", "testing",
   "building", "containerizing", "pushing", "deploying", "health_check",
   "rolling_back"}

NoStage == [status |-> "absent", ended |-> FALSE, error |-> "none"]

NoDeployment ==
  [status |-> "none", currentStage |-> "none", ended |-> FALSE,
   framework |-> "none",
   stages |-> [s \in StageNames |-> NoStage], logs |-> <<>>,
   options |-> [provider |-> "none", autoRollback |-> FALSE, runTests |-> FALSE],
   metadata |-> {}]

----------------------------------------------------------------------------
\* The state the handlers work on, as one record

World ==
  [active |-> activeDeployments, history |-> deploymentHistory,
   deps |-> deployments, events |-> events, pc |-> pc,
   cancelUpdating |-> cancelUpdating, rollbackCalls |-> rollbackCalls,
   projectUpdates |-> projectUpdates, monitors |-> healthMonitor,
   errorLog |-> errorLog]

\* The handler's result becomes the next state
Commit(result) ==
  \E w \in {result} :
    /\ activeDeployments' = w.active
    /\ deploymentHistory' = w.history
    /\ deployments' = w.deps
    /\ events' = w.events
    /\ pc' = w.pc
    /\ cancelUpdating' = w.cancelUpdating
    /\ rollbackCalls' = w.rollbackCalls
    /\ projectUpdates' = w.projectUpdates
    /\ healthMonitor' = w.monitors
    /\ errorLog' = w.errorLog

Idle == [at |-> "idle", error |-> "none"]
Done == [at |-> "done", error |-> "none"]
At(where, error) == [at |-> where, error |-> error]

----------------------------------------------------------------------------
\* Helpers of DeploymentPipeline

\* options.x !== false, then overridden by the spread of the caller's options
ResolveFlag(given) == given # "false"

addLog(w, d, message, level) ==
  IF d \notin (w.active \cup w.history) THEN w
  ELSE LET entry == [level |-> level, message |-> message,
                     stage |-> w.deps[d].currentStage]
           logs == Append(w.deps[d].logs, entry)
       IN [w EXCEPT !.deps[d].logs =
             IF Len(logs) > LogCap
             THEN SubSeq(logs, Len(logs) - LogCap + 1, Len(logs))
             ELSE logs]

notifySubscribers(w, d, update) ==
  [w EXCEPT !.events[d] = Append(@, update)]

StageEvent(stage, status, error) ==
  [kind |-> "stage", stage |-> stage, status |-> status, error |-> error]
FinalEvent(status) ==
  [kind |-> "final", stage |-> "none", status |-> status, error |-> "none"]

requiresContainerization_NotStatic(dp) ==
  CLOUD_PROVIDERS[dp.options.provider].type # "static"

requiresContainerization(dp) ==
  CLOUD_PROVIDERS[dp.options.provider].type = "container"

StartStage_NoNotify(w, d, stage) ==
  addLog([w EXCEPT !.deps[d].currentStage = stage,
                   !.deps[d].stages[stage] =
                      [status |-> "running", ended |-> FALSE, error |-> "none"]],
         d, "Starting stage", "info")

\* executeStage, from its entry to the call of the stage function
StartStage(w, d, stage) ==
  LET w1 == [w EXCEPT !.deps[d].currentStage = stage,
                      !.deps[d].stages[stage] =
                         [status |-> "running", ended |-> FALSE, error |-> "none"]]
      w2 == addLog(w1, d, "Starting stage", "info")
  IN notifySubscribers(w2, d, StageEvent(stage, "running", "none"))

SucceedStage_NoResult(w, d, stage) ==
  notifySubscribers(addLog(w, d, "Completed stage", "success"), d,
                    StageEvent(stage, "success", "none"))

\* executeStage, after the stage function has returned
SucceedStage(w, d, stage) ==
  LET w1 == [w EXCEPT !.deps[d].stages[stage].status = "success",
                      !.deps[d].stages[stage].ended = TRUE]
      w2 == addLog(w1, d, "Completed stage", "success")
  IN notifySubscribers(w2, d, StageEvent(stage, "success", "none"))

FailStage_NoMessage(w, d, stage, message) ==
  LET w1 == [w EXCEPT !.deps[d].stages[stage].status = "failed",
                      !.deps[d].stages[stage].ended = TRUE]
      w2 == addLog(w1, d, "Failed stage", "error")
  IN notifySubscribers(w2, d, StageEvent(stage, "failed", "none"))

\* executeStage, after the stage function has thrown
FailStage(w, d, stage, message) ==
  LET w1 == [w EXCEPT !.deps[d].stages[stage].status = "failed",
                      !.deps[d].stages[stage].ended = TRUE,
                      !.deps[d].stages[stage].error = message]
      w2 == addLog(w1, d, "Failed stage", "error")
  IN notifySubscribers(w2, d, StageEvent(stage, "failed", message))

completeDeployment_NoGuard(w, d, status) ==
  [w EXCEPT !.deps[d].status = status,
            !.deps[d].ended = TRUE,
            !.history = @ \cup {d},
            !.active = @ \ {d},
            !.projectUpdates[d] =
               Append(@, IF status = DEPLOYMENT_STAGES.SUCCESS
                         THEN "deployed" ELSE "failed")]

completeDeployment_KeepsActive(w, d, status) ==
  IF d \notin w.active THEN w
  ELSE [w EXCEPT !.deps[d].status = status,
                 !.deps[d].ended = TRUE,
                 !.history = @ \cup {d},
                 !.projectUpdates[d] =
                    Append(@, IF status = DEPLOYMENT_STAGES.SUCCESS
                              THEN "deployed" ELSE "failed")]

\* completeDeployment, up to the await of apiService.updateProject
completeDeployment(w, d, status) ==
  IF d \notin w.active THEN w
  ELSE [w EXCEPT !.deps[d].status = status,
                 !.deps[d].ended = TRUE,
                 !.history = @ \cup {d},
                 !.active = @ \ {d},
                 !.projectUpdates[d] =
                    Append(@, IF status = DEPLOYMENT_STAGES.SUCCESS
                              THEN "deployed" ELSE "failed")]

\* completeDeployment, after apiService.updateProject has returned
FinishCompletion(w, d) ==
  notifySubscribers(addLog(w, d, "Deployment completed", "info"), d,
                    FinalEvent(w.deps[d].status))

\* errorHandler.handleError(new DeploymentError(...)): ErrorHandler.logError
ReportError(w, d, message) ==
  LET entry == [deploymentId |-> d, message |-> message,
                stage |-> w.deps[d].currentStage]
      log == <<entry>> \o w.errorLog
  IN [w EXCEPT !.errorLog =
        IF Len(log) > maxLogSize THEN SubSeq(log, 1, maxLogSize) ELSE log]

----------------------------------------------------------------------------
\* The stage functions: what the collaborator may answer, what the stage
\* function writes to the deployment, and the error it throws

Responses(stage) ==
  CASE stage = "initializing" -> {"ok", "error", "no_repo_url"}
    [] stage = "analyzing" -> FrameworkInputs \cup {"error"}
    [] stage = "testing" -> {"ok", "error", "tests_failed"}
    [] stage = "health_check" -> {"healthy", "health_error", "timeout"}
    [] OTHER -> {"ok", "error"}

StageWrites(stage, response) ==
  IF response = "error" THEN {}
  ELSE CASE stage = "initializing" -> {"project"}
         [] stage = "cloning" -> {"commitHash"}
         [] stage = "analyzing" ->
              IF response \in FRAMEWORK_CONFIGS
              THEN {"framework", "frameworkConfig"}
              ELSE {"framework"}
         [] stage = "building" -> {"buildArtifacts"}
         [] stage = "containerizing" -> {"imageTag"}
         [] stage = "deploying" -> {"deploymentUrl", "healthEndpoint"}
         [] OTHER -> {}

StageError(dp, stage, response) ==
  CASE response = "error" -> "Request failed"
    [] response = "no_repo_url" -> "Repository URL is required"
    [] stage = "analyzing" /\ response \notin FRAMEWORK_CONFIGS ->
         "Unsupported framework"
    [] response = "tests_failed" -> "Tests failed"
    [] response = "health_error" -> "Health check failed"
    [] response = "timeout" -> "Health check timeout"
    [] stage = "initializing"
         /\ dp.options.provider \notin DOMAIN CLOUD_PROVIDERS ->
         "Unsupported cloud provider"
    [] OTHER -> "none"

NextStage_NoHealthCheck(dp, stage) ==
  CASE stage = "initializing" -> "cloning"
    [] stage = "cloning" -> "analyzing"
    [] stage = "analyzing" -> "installing"
    [] stage = "installing" ->
         IF dp.options.runTests THEN "testing" ELSE "building"
    [] stage = "testing" -> "building"
    [] stage = "building" ->
         IF requiresContainerization(dp) THEN "containerizing" ELSE "deploying"
    [] stage = "containerizing" -> "pushing"
    [] stage = "pushing" -> "deploying"
    [] OTHER -> "complete"

\* The order of the stages in executeDeployment
NextStage(dp, stage) ==
  CASE stage = "initializing" -> "cloning"
    [] stage = "cloning" -> "analyzing"
    [] stage = "analyzing" -> "installing"
    [] stage = "installing" ->
         IF dp.options.runTests THEN "testing" ELSE "building"
    [] stage = "testing" -> "building"
    [] stage = "building" ->
         IF requiresContainerization(dp) THEN "containerizing" ELSE "deploying"
    [] stage = "containerizing" -> "pushing"
    [] stage = "pushing" -> "deploying"
    [] stage = "deploying" -> "health_check"
    [] OTHER -> "complete"

----------------------------------------------------------------------------
\* HealthMonitor.  A monitor object is kept apart from the registry that
\* refers to it: a check holds the object it found when it started.

NoMonitors ==
  [activeMonitors |-> [id \in MonitorIds |-> 0],  \* id -> its object, 0: none
   objects |-> <<>>,        \* the monitorConfig objects made so far
   started |-> <<>>,        \* the arguments of the startMonitoring calls
   checks |-> <<>>,         \* the performHealthCheck calls in flight
   checksStarted |-> 0,
   healthChecks |-> <<>>,   \* the stored results, oldest first
   alerts |-> <<>>,         \* the requests to /notifications/alert
   subscribers |-> [id \in MonitorIds |-> FALSE],  \* a callback is registered
   delivered |-> <<>>,      \* the results given to the callbacks
   idleStop |-> FALSE,      \* a caller's stopMonitoring found no monitor
   rollbacks |-> <<>>]      \* the calls of apiService.rollbackDeployment

\* HealthMonitor.performHealthCheck, to the await of the status request
\* (initial: called by scheduleHealthCheck, not by the timer)
HealthMonitor_performHealthCheck(w, id, initial) ==
  LET o == w.monitors.activeMonitors[id]
  IN IF o = 0 THEN w
     ELSE [w EXCEPT
             !.monitors.checks =
                Append(@, [deploymentId |-> id, monitor |-> o, at |-> "status",
                           alert |-> 0, initial |-> initial]),
             !.monitors.checksStarted = @ + 1]

\* scheduleHealthCheck: the interval timer and the immediate check
scheduleHealthCheck_TimerOnly(w, id) ==
  LET o == w.monitors.activeMonitors[id]
  IN IF o = 0 THEN w
     ELSE [w EXCEPT !.monitors.objects[o].intervalId = TRUE]

scheduleHealthCheck(w, id) ==
  LET o == w.monitors.activeMonitors[id]
  IN IF o = 0 THEN w
     ELSE HealthMonitor_performHealthCheck(
            [w EXCEPT !.monitors.objects[o].intervalId = TRUE], id, TRUE)

\* startMonitoring: the monitorConfig has no autoRollback property, which
\* reads as undefined (here FALSE)
startMonitoring(w, id, options) ==
  LET monitorConfig ==
        [deploymentId |-> id, retries |-> 0,
         maxRetries |-> IF options.maxRetries = NotGiven
                        THEN maxRetries ELSE options.maxRetries,
         healthEndpoint |-> options.healthEndpoint,
         expectedStatus |-> IF options.expectedStatus = NotGiven
                            THEN expectedStatus ELSE options.expectedStatus,
         autoRollback |-> FALSE,
         status |-> "monitoring", uptime |-> NoUptime, responseTime |-> <<>>,
         successCount |-> 0, errorCount |-> 0,
         intervalId |-> FALSE]
      w1 == [w EXCEPT
               !.monitors.objects = Append(@, monitorConfig),
               !.monitors.started = Append(@, [deploymentId |-> id] @@ options),
               !.monitors.activeMonitors[id] = Len(w.monitors.objects) + 1]
  IN scheduleHealthCheck(w1, id)

stopMonitoring_ForgetsResults(w, id) ==
  LET o == w.monitors.activeMonitors[id]
      w1 == [w EXCEPT !.monitors.healthChecks =
               SelectSeq(@, LAMBDA r : r.deploymentId # id)]
  IN IF o = 0 THEN w1
     ELSE [w1 EXCEPT !.monitors.objects[o].intervalId = FALSE,
                     !.monitors.activeMonitors[id] = 0]

stopMonitoring_KeepsEntry(w, id) ==
  LET o == w.monitors.activeMonitors[id]
  IN IF o = 0 THEN w
     ELSE [w EXCEPT !.monitors.objects[o].intervalId = FALSE]

\* stopMonitoring (healthChecks.delete(deploymentId) finds no such key)
stopMonitoring(w, id) ==
  LET o == w.monitors.activeMonitors[id]
  IN IF o = 0 THEN w
     ELSE [w EXCEPT !.monitors.objects[o].intervalId = FALSE,
                    !.monitors.activeMonitors[id] = 0]

evaluateHealth_DefaultStatus(deploymentStatus, healthResult, monitor) ==
  IF deploymentStatus \in {"failed", "error"} THEN FALSE
  ELSE IF deploymentStatus # "running" THEN TRUE
  ELSE IF monitor.healthEndpoint /\ healthResult # NoHealthResult
  THEN healthResult = expectedStatus
  ELSE deploymentStatus = "running"

evaluateHealth(deploymentStatus, healthResult, monitor) ==
  IF deploymentStatus \in {"failed", "error"} THEN FALSE
  ELSE IF deploymentStatus # "running" THEN TRUE
  ELSE IF monitor.healthEndpoint /\ healthResult # NoHealthResult
  THEN healthResult = monitor.expectedStatus
  ELSE deploymentStatus = "running"

\* The check i returns: it leaves the checks in flight
EndCheck(w, i) ==
  [w EXCEPT !.monitors.checks =
     SubSeq(@, 1, i - 1) \o SubSeq(@, i + 1, Len(@))]

\* The result of a check, as stored in healthChecks and given to the
\* callbacks (responseTime 0: the result has none)
CheckResult(w, i, status, responseTime, deploymentStatus, healthResult) ==
  LET t == w.monitors.checks[i]
      m == w.monitors.objects[t.monitor]
  IN [deploymentId |-> t.deploymentId, monitor |-> t.monitor, status |-> status,
      initial |-> t.initial, responseTime |-> responseTime,
      deploymentStatus |-> deploymentStatus, healthResult |-> healthResult,
      successCount |-> m.successCount, errorCount |-> m.errorCount]

\* subscribe, called with the callback of DeploymentPipeline.performHealthCheck
subscribe(w, id) ==
  [w EXCEPT !.monitors.subscribers[id] = TRUE]

\* HealthMonitor.notifySubscribers: the callback of the pipeline
\* unsubscribes when it is given a healthy or an error result
HealthMonitor_notifySubscribers(w, id, result) ==
  IF ~w.monitors.subscribers[id] THEN w
  ELSE [w EXCEPT !.monitors.delivered = Append(@, result),
                 !.monitors.subscribers[id] =
                    result.status \notin {"healthy", "error"}]

pushResponseTime_KeepsOldest(samples, responseTime) ==
  LET pushed == Append(samples, responseTime)
  IN IF Len(pushed) > ResponseTimeCap
     THEN SubSeq(pushed, 1, ResponseTimeCap)
     ELSE pushed

\* The sample list after a push: the last ResponseTimeCap samples are kept
pushResponseTime(samples, responseTime) ==
  LET pushed == Append(samples, responseTime)
  IN IF Len(pushed) > ResponseTimeCap
     THEN SubSeq(pushed, Len(pushed) - ResponseTimeCap + 1, Len(pushed))
     ELSE pushed

\* triggerAutoRollback, to the await of apiService.rollbackDeployment
triggerAutoRollback(w, i) ==
  LET t == w.monitors.checks[i]
  IN [w EXCEPT
        !.monitors.rollbacks =
           Append(@, [monitor |-> t.monitor, target |-> t.deploymentId]),
        !.monitors.checks[i].at = "rollback"]

\* performHealthCheck: the test that follows the handling of the result
AutoRollbackTest(w, i) ==
  LET m == w.monitors.objects[w.monitors.checks[i].monitor]
  IN IF m.retries >= m.maxRetries /\ m.autoRollback
     THEN triggerAutoRollback(w, i)
     ELSE EndCheck(w, i)

\* handleUnhealthyDeployment and sendAlert, to the await of the alert request
sendAlert(w, i) ==
  LET t == w.monitors.checks[i]
      m == w.monitors.objects[t.monitor]
  IN [w EXCEPT
        !.monitors.alerts =
           Append(@, [monitor |-> t.monitor, deploymentId |-> t.deploymentId,
                      severity |-> IF m.retries >= m.maxRetries
                                   THEN "critical" ELSE "warning",
                      outcome |-> "pending"]),
        !.monitors.checks[i].at = "alert",
        !.monitors.checks[i].alert = Len(w.monitors.alerts) + 1]

\* ((successCount / (successCount + errorCount)) * 100).toFixed(2), written
\* in hundredths of a percent: the quotient rounded to two decimals
uptime(successCount, errorCount) ==
  (20000 * successCount + (successCount + errorCount))
    \div (2 * (successCount + errorCount))

AlertReturned_Propagates(w, i, response) ==
  LET w1 == [w EXCEPT !.monitors.alerts[w.monitors.checks[i].alert].outcome =
               IF response = "error" THEN "failed" ELSE "sent"]
  IN IF response = "error" THEN EndCheck(w1, i) ELSE AutoRollbackTest(w1, i)

\* sendAlert and handleUnhealthyDeployment after the alert request has
\* returned or failed: the failure is written to the console only
AlertReturned(w, i, response) ==
  LET w1 == [w EXCEPT !.monitors.alerts[w.monitors.checks[i].alert].outcome =
               IF response = "error" THEN "failed" ELSE "sent"]
  IN AutoRollbackTest(w1, i)

Evaluated_CountsTwice(w, i, deploymentStatus, healthResult) ==
  LET o == w.monitors.checks[i].monitor
      m == w.monitors.objects[o]
      responseTime == m.successCount + m.errorCount + 1
      isHealthy == evaluateHealth(deploymentStatus, healthResult, m)
      w1 == [w EXCEPT !.monitors.objects[o] =
               IF isHealthy
               THEN [m EXCEPT !.successCount = @ + 1, !.retries = 0,
                              !.responseTime = pushResponseTime(@, responseTime),
                              !.status = "healthy",
                              !.uptime = uptime(m.successCount + 1, m.errorCount)]
               ELSE [m EXCEPT !.errorCount = @ + 1, !.retries = @ + 2,
                              !.responseTime = pushResponseTime(@, responseTime),
                              !.status = "unhealthy",
                              !.uptime = uptime(m.successCount, m.errorCount + 1)]]
      result == CheckResult(w1, i, w1.monitors.objects[o].status, responseTime,
                            deploymentStatus, healthResult)
      w2 == HealthMonitor_notifySubscribers(
              [w1 EXCEPT !.monitors.healthChecks = Append(@, result)],
              w.monitors.checks[i].deploymentId, result)
  IN IF isHealthy THEN AutoRollbackTest(w2, i)
     ELSE sendAlert(w2, i)

\* performHealthCheck, from the evaluation of the answers to the next await.
\* A response-time sample is written as the number of the result it belongs
\* to, which tells the samples of a monitor apart.
Evaluated(w, i, deploymentStatus, healthResult) ==
  LET o == w.monitors.checks[i].monitor
      m == w.monitors.objects[o]
      responseTime == m.successCount + m.errorCount + 1
      isHealthy == evaluateHealth(deploymentStatus, healthResult, m)
      w1 == [w EXCEPT !.monitors.objects[o] =
               IF isHealthy
               THEN [m EXCEPT !.successCount = @ + 1, !.retries = 0,
                              !.responseTime = pushResponseTime(@, responseTime),
                              !.status = "healthy",
                              !.uptime = uptime(m.successCount + 1, m.errorCount)]
               ELSE [m EXCEPT !.errorCount = @ + 1, !.retries = @ + 1,
                              !.responseTime = pushResponseTime(@, responseTime),
                              !.status = "unhealthy",
                              !.uptime = uptime(m.successCount, m.errorCount + 1)]]
      result == CheckResult(w1, i, w1.monitors.objects[o].status, responseTime,
                            deploymentStatus, healthResult)
      w2 == HealthMonitor_notifySubscribers(
              [w1 EXCEPT !.monitors.healthChecks = Append(@, result)],
              w.monitors.checks[i].deploymentId, result)
  IN IF isHealthy THEN AutoRollbackTest(w2, i)
     ELSE sendAlert(w2, i)

\* errorHandler.handleError(new DeploymentError(...)) called by the monitor
MonitorError(w, id, message, stage) ==
  LET log == <<[deploymentId |-> id, message |-> message, stage |-> stage]>>
             \o w.errorLog
  IN [w EXCEPT !.errorLog =
        IF Len(log) > maxLogSize THEN SubSeq(log, 1, maxLogSize) ELSE log]

\* performHealthCheck, its catch block
CheckFailed(w, i) ==
  LET t == w.monitors.checks[i]
      o == t.monitor
      w1 == [w EXCEPT !.monitors.objects[o].errorCount = @ + 1,
                      !.monitors.objects[o].retries = @ + 1,
                      !.monitors.objects[o].status = "error"]
      result == CheckResult(w1, i, "error", 0, "none", NoHealthResult)
      w2 == HealthMonitor_notifySubscribers(
              [w1 EXCEPT !.monitors.healthChecks = Append(@, result)],
              t.deploymentId, result)
  IN EndCheck(MonitorError(w2, t.deploymentId, "Health check failed",
                           "health_check"), i)

RolledBack_KeepsMonitor(w, i, newId) ==
  LET t == w.monitors.checks[i]
      m == w.monitors.objects[t.monitor]
      w2 == IF newId = "none" THEN w
            ELSE startMonitoring(w, newId,
                   [healthEndpoint |-> m.healthEndpoint,
                    autoRollback |-> FALSE,
                    maxRetries |-> m.maxRetries,
                    expectedStatus |-> m.expectedStatus])
  IN EndCheck(HealthMonitor_notifySubscribers(w2, t.deploymentId,
                CheckResult(w, i, "rolled_back", 0, "none", NoHealthResult)), i)

\* triggerAutoRollback, after apiService.rollbackDeployment has returned a
\* result with the given deploymentId ("none": without one)
RolledBack(w, i, newId) ==
  LET t == w.monitors.checks[i]
      m == w.monitors.objects[t.monitor]
      w1 == stopMonitoring(w, t.deploymentId)
      w2 == IF newId = "none" THEN w1
            ELSE startMonitoring(w1, newId,
                   [healthEndpoint |-> m.healthEndpoint,
                    autoRollback |-> FALSE,
                    maxRetries |-> m.maxRetries,
                    expectedStatus |-> m.expectedStatus])
  IN EndCheck(HealthMonitor_notifySubscribers(w2, t.deploymentId,
                CheckResult(w, i, "rolled_back", 0, "none", NoHealthResult)), i)

\* getHealthHistory: the stored results of id, newest first, at most limit
\* of them (results are stored with increasing timestamps)
getHealthHistory(monitors, id, limit) ==
  LET history == SelectSeq(monitors.healthChecks, LAMBDA r : r.deploymentId = id)
      sorted == [k \in 1..Len(history) |-> history[Len(history) + 1 - k]]
  IN SubSeq(sorted, 1, IF Len(sorted) < limit THEN Len(sorted) ELSE limit)

RECURSIVE reduce(_)
\* responseTime.reduce((a, b) => a + b, 0)
reduce(responseTime) ==
  IF responseTime = <<>> THEN 0
  ELSE Head(responseTime) + reduce(Tail(responseTime))

\* getMetrics (the average is rounded as Math.round rounds it)
getMetrics(monitors, id) ==
  LET o == monitors.activeMonitors[id]
      monitor == monitors.objects[o]
      samples == Len(monitor.responseTime)
  IN IF o = 0 THEN NoMetrics
     ELSE [uptime |-> monitor.uptime,
           avgResponseTime |->
             IF samples > 0
             THEN (2 * reduce(monitor.responseTime) + samples) \div (2 * samples)
             ELSE 0,
           totalChecks |-> monitor.successCount + monitor.errorCount,
           successCount |-> monitor.successCount,
           errorCount |-> monitor.errorCount,
           status |-> monitor.status]

----------------------------------------------------------------------------
\* The control flow of executeDeployment and handleDeploymentError, each
\* operator running to the next await

handleDeploymentError_NoRollback(w, d, message) ==
  IF d \notin w.active THEN [w EXCEPT !.pc[d] = Done]
  ELSE [completeDeployment(addLog(w, d, "Deployment failed", "error"), d,
                           DEPLOYMENT_STAGES.FAILED)
          EXCEPT !.pc[d] = At("update_failed", message)]

handleDeploymentError_AlwaysRollback(w, d, message) ==
  IF d \notin w.active THEN [w EXCEPT !.pc[d] = Done]
  ELSE [StartStage(addLog(w, d, "Deployment failed", "error"), d,
                   DEPLOYMENT_STAGES.ROLLING_BACK)
          EXCEPT !.pc[d] = At("rollback_lookup", message)]

\* handleDeploymentError, to its first await
handleDeploymentError(w, d, message) ==
  IF d \notin w.active THEN [w EXCEPT !.pc[d] = Done]
  ELSE LET w1 == addLog(w, d, "Deployment failed", "error")
       IN IF w1.deps[d].options.autoRollback
          THEN [StartStage(w1, d, DEPLOYMENT_STAGES.ROLLING_BACK)
                  EXCEPT !.pc[d] = At("rollback_lookup", message)]
          ELSE [completeDeployment(w1, d, DEPLOYMENT_STAGES.FAILED)
                  EXCEPT !.pc[d] = At("update_failed", message)]

AfterRollback_NoComplete(w, d, message) ==
  [ReportError(w, d, message) EXCEPT !.pc[d] = Done]

\* handleDeploymentError, from the end of the rollback attempt
AfterRollback(w, d, message) ==
  IF d \in w.active
  THEN [completeDeployment(w, d, DEPLOYMENT_STAGES.FAILED)
          EXCEPT !.pc[d] = At("update_failed", message)]
  ELSE [ReportError(w, d, message) EXCEPT !.pc[d] = Done]

MarkSuccessful_NoComplete(w, d) == [w EXCEPT !.pc[d] = Done]

\* executeDeployment: completeDeployment(deploymentId, SUCCESS)
MarkSuccessful(w, d) ==
  IF d \in w.active
  THEN [completeDeployment(w, d, DEPLOYMENT_STAGES.SUCCESS)
          EXCEPT !.pc[d] = At("update_success", "none")]
  ELSE [w EXCEPT !.pc[d] = Done]

\* DeploymentPipeline.performHealthCheck, to its await
performHealthCheck(w, d) ==
  IF "healthEndpoint" \notin w.deps[d].metadata
  THEN LET w1 == addLog(w, d, "No health endpoint configured", "info")
       IN MarkSuccessful(SucceedStage(w1, d, DEPLOYMENT_STAGES.HEALTH_CHECK), d)
  ELSE [subscribe(startMonitoring(w, d,
                    [healthEndpoint |-> TRUE,
                     autoRollback |-> w.deps[d].options.autoRollback,
                     maxRetries |-> NotGiven, expectedStatus |-> NotGiven]), d)
          EXCEPT !.pc[d] = At("stage", "none")]

EnterStage_NoActiveCheck(w, d, stage) ==
  LET w1 == StartStage(w, d, stage)
  IN IF stage = DEPLOYMENT_STAGES.HEALTH_CHECK
     THEN performHealthCheck(w1, d)
     ELSE [w1 EXCEPT !.pc[d] = At("stage", "none")]

\* executeDeployment calling executeStage for one of the pipeline's stages
EnterStage(w, d, stage) ==
  IF d \notin w.active
  THEN handleDeploymentError(w, d, "Deployment not found")
  ELSE LET w1 == StartStage(w, d, stage)
       IN IF stage = DEPLOYMENT_STAGES.HEALTH_CHECK
          THEN performHealthCheck(w1, d)
          ELSE [w1 EXCEPT !.pc[d] = At("stage", "none")]

lastSuccessful_AnySuccess(list, d) ==
  LET hits == {i \in 1..Len(list) : list[i].status = "success"}
  IN IF hits = {} THEN "none"
     ELSE list[CHOOSE i \in hits : \A j \in hits : i <= j].deploymentId

\* rollbackDeployment: the deployment found by previousDeployments.find
lastSuccessful(list, d) ==
  LET hits == {i \in 1..Len(list) :
                 list[i].status = "success" /\ list[i].deploymentId # d}
  IN IF hits = {} THEN "none"
     ELSE list[CHOOSE i \in hits : \A j \in hits : i <= j].deploymentId

----------------------------------------------------------------------------
\* The lists the API may return for getDeployments: no id twice, in any order

ServerRecordsOf(ids) == [deploymentId : ids, status : {"success", "failed"}]

ServerListsOf(ids) ==
  {l \in UNION {[1..n -> ServerRecordsOf(ids)] : n \in 0..MaxServerDeployments} :
     \A i, j \in 1..Len(l) : i # j => l[i].deploymentId # l[j].deploymentId}

ServerRecords == ServerRecordsOf(DeploymentIds \cup PriorIds)

ServerLists == ServerListsOf(DeploymentIds \cup PriorIds)

\* A project with two earlier deployments
WideServerLists == ServerListsOf(DeploymentIds \cup WidePriorIds)

\* The deployments in the order they were started: the ids and start times
\* are taken from the clock, the deployment at hand being the latest
startTime(id) ==
  CASE id = "old-1" -> 1
    [] id = "old-2" -> 2
    [] OTHER -> 3

\* The state after construction, but for the deployments the server holds
ConstructedPipeline ==
  /\ activeDeployments = {}
  /\ deploymentHistory = {}
  /\ deployments = [d \in DeploymentIds |-> NoDeployment]
  /\ events = [d \in DeploymentIds |-> <<>>]
  /\ pc = [d \in DeploymentIds |-> Idle]
  /\ cancelInFlight = [d \in DeploymentIds |-> 0]
  /\ cancelUpdating = [d \in DeploymentIds |-> FALSE]
  /\ cancelsStarted = [d \in DeploymentIds |-> 0]
  /\ rollbackCalls = [d \in DeploymentIds |-> <<>>]
  /\ projectUpdates = [d \in DeploymentIds |-> <<>>]
  /\ errorLog = <<>>

Constructed == ConstructedPipeline /\ healthMonitor = NoMonitors

Init == Constructed /\ serverDeployments \in ServerLists

WideInit == Constructed /\ serverDeployments \in WideServerLists

----------------------------------------------------------------------------
\* Actions

\* startDeployment, with the part of executeDeployment that runs before the
\* first await: the initializing stage is started and the project requested
StartDeployment(d, provider, autoRollback, runTests) ==
  /\ pc[d].at = "idle"
  /\ LET deployment ==
           [NoDeployment EXCEPT
              !.status = DEPLOYMENT_STAGES.INITIALIZING,
              !.currentStage = DEPLOYMENT_STAGES.INITIALIZING,
              !.options = [provider |-> provider,
                           autoRollback |-> ResolveFlag(autoRollback),
                           runTests |-> ResolveFlag(runTests)]]
         w1 == [World EXCEPT !.deps[d] = deployment, !.active = @ \cup {d}]
     IN Commit(EnterStage(w1, d, DEPLOYMENT_STAGES.INITIALIZING))
  /\ UNCHANGED <<cancelInFlight, cancelsStarted, serverDeployments>>

\* The call a stage function awaits returns or fails: the rest of
\* executeStage, then executeDeployment up to the next await
StageReturns(d, response) ==
  /\ pc[d].at = "stage"
  /\ LET stage == deployments[d].currentStage
         message == StageError(deployments[d], stage, response)
     IN /\ response \in Responses(stage)
        /\ \E w1 \in {[World EXCEPT
                          !.deps[d].metadata = @ \cup StageWrites(stage, response),
                          !.deps[d].framework =
                             IF stage = "analyzing" /\ response # "error"
                             THEN response ELSE @]} :
             IF message = "none"
             THEN \E w2 \in {SucceedStage(addLog(w1, d, "Stage work done", "info"),
                                         d, stage)} :
                    LET next == NextStage(w2.deps[d], stage)
                    IN IF next = "complete"
                       THEN Commit(MarkSuccessful(w2, d))
                       ELSE Commit(EnterStage(w2, d, next))
             ELSE \E w2 \in {FailStage(w1, d, stage, message)} :
                    Commit(handleDeploymentError(w2, d, message))
  /\ UNCHANGED <<cancelInFlight, cancelsStarted, serverDeployments>>

\* rollbackDeployment: apiService.getDeployments returns or fails
RollbackLookupReturns(d, ok) ==
  /\ pc[d].at = "rollback_lookup"
  /\ LET stage == DEPLOYMENT_STAGES.ROLLING_BACK
         target == lastSuccessful(serverDeployments, d)
         failed(message) ==
           AfterRollback(addLog(FailStage(World, d, stage, message), d,
                                "Rollback failed", "error"), d, pc[d].error)
     IN IF ~ok THEN Commit(failed("Request failed"))
        ELSE IF target = "none"
        THEN Commit(failed("No previous successful deployment found for rollback"))
        ELSE Commit([World EXCEPT !.rollbackCalls[d] = Append(@, target),
                                  !.pc[d] = At("rollback_call", pc[d].error)])
  /\ UNCHANGED <<cancelInFlight, cancelsStarted, serverDeployments>>

\* rollbackDeployment: apiService.rollbackDeployment returns or fails
RollbackCallReturns(d, ok) ==
  /\ pc[d].at = "rollback_call"
  /\ LET stage == DEPLOYMENT_STAGES.ROLLING_BACK
     IN IF ok
        THEN Commit(AfterRollback(
               SucceedStage(addLog(World, d, "Rolled back to deployment", "info"),
                            d, stage), d, pc[d].error))
        ELSE Commit(AfterRollback(
               addLog(FailStage(World, d, stage, "Request failed"), d,
                      "Rollback failed", "error"), d, pc[d].error))
  /\ UNCHANGED <<cancelInFlight, cancelsStarted, serverDeployments>>

\* completeDeployment called by the pipeline task: apiService.updateProject
\* returns or fails
UpdateProjectReturns(d, ok) ==
  /\ pc[d].at \in {"update_success", "update_failed"}
  /\ IF ok
     THEN LET w1 == FinishCompletion(World, d)
          IN IF pc[d].at = "update_failed"
             THEN Commit([ReportError(w1, d, pc[d].error) EXCEPT !.pc[d] = Done])
             ELSE Commit([w1 EXCEPT !.pc[d] = Done])
     ELSE Commit(handleDeploymentError(World, d, "Request failed"))
  /\ UNCHANGED <<cancelInFlight, cancelsStarted, serverDeployments>>

\* cancelDeployment, to the await of the cancel request (it throws when the
\* deployment is not active, changing nothing)
CancelDeployment(d) ==
  /\ d \in activeDeployments
  /\ cancelsStarted[d] < MaxCancels
  /\ cancelsStarted' = [cancelsStarted EXCEPT ![d] = @ + 1]
  /\ cancelInFlight' = [cancelInFlight EXCEPT ![d] = @ + 1]
  /\ UNCHANGED <<activeDeployments, deploymentHistory, deployments, events, pc,
                 cancelUpdating, serverDeployments, rollbackCalls,
                 projectUpdates, healthMonitor, errorLog>>

\* cancelDeployment: the cancel request returns or fails
CancelRequestReturns(d, ok) ==
  /\ cancelInFlight[d] > 0
  /\ cancelInFlight' = [cancelInFlight EXCEPT ![d] = @ - 1]
  /\ IF ok
     THEN LET w1 == addLog(World, d, "Deployment cancelled by user", "info")
          IN Commit([completeDeployment(w1, d, "cancelled")
                       EXCEPT !.cancelUpdating[d] = @ \/ (d \in w1.active)])
     ELSE Commit(World)
  /\ UNCHANGED <<cancelsStarted, serverDeployments>>

\* completeDeployment called by cancelDeployment: apiService.updateProject
\* returns or fails
CancelUpdateReturns(d, ok) ==
  /\ cancelUpdating[d]
  /\ LET w1 == [World EXCEPT !.cancelUpdating[d] = FALSE]
     IN IF ok THEN Commit(FinishCompletion(w1, d)) ELSE Commit(w1)
  /\ UNCHANGED <<cancelInFlight, cancelsStarted, serverDeployments>>

Next ==
  \/ \E d \in DeploymentIds, provider \in ProviderInputs,
        autoRollback \in FlagInputs, runTests \in FlagInputs :
       StartDeployment(d, provider, autoRollback, runTests)
  \/ \E d \in DeploymentIds, response \in UNION {Responses(s) : s \in StageNames} :
       StageReturns(d, response)
  \/ \E d \in DeploymentIds, ok \in BOOLEAN : RollbackLookupReturns(d, ok)
  \/ \E d \in DeploymentIds, ok \in BOOLEAN : RollbackCallReturns(d, ok)
  \/ \E d \in DeploymentIds, ok \in BOOLEAN : UpdateProjectReturns(d, ok)
  \/ \E d \in DeploymentIds : CancelDeployment(d)
  \/ \E d \in DeploymentIds, ok \in BOOLEAN : CancelRequestReturns(d, ok)
  \/ \E d \in DeploymentIds, ok \in BOOLEAN : CancelUpdateReturns(d, ok)

Spec == Init /\ [][Next]_vars

\* A task suspended on a collaborator call (or, in the health_check stage,
\* on the monitor's result and the one-minute timer) is resumed
Resume ==
  \E d \in DeploymentIds :
    \/ \E response \in UNION {Responses(s) : s \in StageNames} :
         StageReturns(d, response)
    \/ \E ok \in BOOLEAN :
         \/ RollbackLookupReturns(d, ok)
         \/ RollbackCallReturns(d, ok)
         \/ UpdateProjectReturns(d, ok)
         \/ CancelRequestReturns(d, ok)
         \/ CancelUpdateReturns(d, ok)

\* Every collaborator call eventually returns or fails, and the timer fires:
\* while some task is suspended, one of them is eventually resumed
Fairness == WF_vars(Resume)

FairSpec == Spec /\ Fairness

----------------------------------------------------------------------------
\* The health monitor on its own: its callers, its timers and the answers
\* to its requests

\* The startMonitoring calls made for a deployment of the pipeline
CallerStarts ==
  SelectSeq(healthMonitor.started, LAMBDA c : c.deploymentId \in DeploymentIds)

\* startMonitoring and subscribe called as the pipeline calls them, once for
\* a deployment id, or so with a threshold
StartMonitoring(id, autoRollback, threshold) ==
  /\ \A k \in 1..Len(healthMonitor.started) :
       healthMonitor.started[k].deploymentId # id
  /\ healthMonitor.checksStarted < MaxChecks
  /\ Commit(subscribe(startMonitoring(World, id,
              [healthEndpoint |-> TRUE, autoRollback |-> autoRollback,
               maxRetries |-> threshold, expectedStatus |-> NotGiven]), id))
  /\ UNCHANGED <<cancelInFlight, cancelsStarted, serverDeployments>>

\* The interval timer of the monitor object o fires
TimerFires(o) ==
  /\ o \in 1..Len(healthMonitor.objects)
  /\ healthMonitor.objects[o].intervalId
  /\ healthMonitor.checksStarted < MaxChecks
  /\ Commit(HealthMonitor_performHealthCheck(
              World, healthMonitor.objects[o].deploymentId, FALSE))
  /\ UNCHANGED <<cancelInFlight, cancelsStarted, serverDeployments>>

\* The status request of the check i returns a deployment status, or fails
\* ("rejected")
StatusReturns(i, response) ==
  /\ i \in 1..Len(healthMonitor.checks)
  /\ healthMonitor.checks[i].at = "status"
  /\ LET m == healthMonitor.objects[healthMonitor.checks[i].monitor]
     IN IF response = "rejected" THEN Commit(CheckFailed(World, i))
        ELSE IF response = "running" /\ m.healthEndpoint
        THEN Commit([World EXCEPT !.monitors.checks[i].at = "health"])
        ELSE Commit(Evaluated(World, i, response, NoHealthResult))
  /\ UNCHANGED <<cancelInFlight, cancelsStarted, serverDeployments>>

\* checkApplicationHealth of the check i returns a response with the given
\* status, or fails (NoHealthResult)
HealthReturns(i, status) ==
  /\ i \in 1..Len(healthMonitor.checks)
  /\ healthMonitor.checks[i].at = "health"
  /\ IF status = NoHealthResult THEN Commit(CheckFailed(World, i))
     ELSE Commit(Evaluated(World, i, "running", status))
  /\ UNCHANGED <<cancelInFlight, cancelsStarted, serverDeployments>>

\* The alert request of the check i returns ("ok") or fails ("error")
AlertReturns(i, response) ==
  /\ i \in 1..Len(healthMonitor.checks)
  /\ healthMonitor.checks[i].at = "alert"
  /\ Commit(AlertReturned(World, i, response))
  /\ UNCHANGED <<cancelInFlight, cancelsStarted, serverDeployments>>

\* apiService.rollbackDeployment called by the check i returns a result
\* naming the given deployment ("none": naming none), or fails ("error")
MonitorRollbackReturns(i, response) ==
  /\ i \in 1..Len(healthMonitor.checks)
  /\ healthMonitor.checks[i].at = "rollback"
  /\ response \in RollbackIds => healthMonitor.checksStarted < MaxChecks
  /\ IF response = "error"
     THEN Commit(EndCheck(MonitorError(World, healthMonitor.checks[i].deploymentId,
                                       "Auto-rollback failed", "auto_rollback"), i))
     ELSE Commit(RolledBack(World, i, response))
  /\ UNCHANGED <<cancelInFlight, cancelsStarted, serverDeployments>>

\* A caller sets autoRollback on the object of a monitor it started, which
\* startMonitoring and getHealthStatus gave it
EnableAutoRollback(id) ==
  /\ healthMonitor.activeMonitors[id] # 0
  /\ ~healthMonitor.objects[healthMonitor.activeMonitors[id]].autoRollback
  /\ Commit([World EXCEPT
               !.monitors.objects[healthMonitor.activeMonitors[id]].autoRollback = TRUE])
  /\ UNCHANGED <<cancelInFlight, cancelsStarted, serverDeployments>>

MonitorInit == Constructed /\ serverDeployments = <<>>

MonitorNext ==
  \/ \E id \in DeploymentIds, autoRollback \in BOOLEAN,
        threshold \in MaxRetriesInputs :
       StartMonitoring(id, autoRollback, threshold)
  \/ \E o \in 1..(MaxStarts + MaxChecks) : TimerFires(o)
  \/ \E i \in 1..MaxChecks, response \in StatusInputs \cup {"rejected"} :
       StatusReturns(i, response)
  \/ \E i \in 1..MaxChecks, status \in {expectedStatus, NoHealthResult} :
       HealthReturns(i, status)
  \/ \E i \in 1..MaxChecks, response \in {"ok", "error"} :
       AlertReturns(i, response)
  \/ \E i \in 1..MaxChecks, response \in RollbackIds \cup {"none", "error"} :
       MonitorRollbackReturns(i, response)
  \/ \E id \in DeploymentIds : EnableAutoRollback(id)

MonitorSpec == MonitorInit /\ [][MonitorNext]_vars

----------------------------------------------------------------------------
\* One monitor and its initial check, over the inputs of evaluateHealth

\* startMonitoring and subscribe called once, with the given options
StartMonitoringWith(id, options) ==
  /\ healthMonitor.started = <<>>
  /\ Commit(subscribe(startMonitoring(World, id, options), id))
  /\ UNCHANGED <<cancelInFlight, cancelsStarted, serverDeployments>>

EvalNext ==
  \/ \E id \in DeploymentIds, options \in EvalOptions :
       StartMonitoringWith(id, options)
  \/ \E i \in 1..MaxChecks, response \in WideStatusInputs \cup {"rejected"} :
       StatusReturns(i, response)
  \/ \E i \in 1..MaxChecks,
        status \in WideHealthStatusInputs \cup {NoHealthResult} :
       HealthReturns(i, status)
  \/ \E i \in 1..MaxChecks, response \in {"ok", "error"} :
       AlertReturns(i, response)

EvalSpec == MonitorInit /\ [][EvalNext]_vars

----------------------------------------------------------------------------
\* A monitor that has made many checks

\* The numbers of checks the monitor has made before
PastChecks == {ResponseTimeCap - 1, ResponseTimeCap}

\* The monitor of id after it was started as the pipeline starts it and has
\* made n checks that found the deployment healthy, each of which returned
\* before the next began; checksStarted counts the checks begun from here
AfterHealthyChecks(id, n) ==
  LET w == subscribe(startMonitoring([monitors |-> NoMonitors], id,
                       [healthEndpoint |-> TRUE, autoRollback |-> TRUE,
                        maxRetries |-> NotGiven, expectedStatus |-> NotGiven]), id)
      o == w.monitors.activeMonitors[id]
      result == [k \in 1..n |->
                  [deploymentId |-> id, monitor |-> o, status |-> "healthy",
                   initial |-> (k = 1), responseTime |-> k,
                   deploymentStatus |-> "running",
                   healthResult |-> expectedStatus,
                   successCount |-> k, errorCount |-> 0]]
  IN [w.monitors EXCEPT
        !.objects[o].successCount = n,
        !.objects[o].status = "healthy",
        !.objects[o].uptime = uptime(n, 0),
        !.objects[o].responseTime = [k \in 1..n |-> k],
        !.healthChecks = result,
        !.delivered = <<result[1]>>,
        !.subscribers[id] = FALSE,
        !.checks = <<>>,
        !.checksStarted = 0]

SamplesInit ==
  /\ ConstructedPipeline
  /\ serverDeployments = <<>>
  /\ \E id \in DeploymentIds, n \in PastChecks :
       healthMonitor = AfterHealthyChecks(id, n)

SamplesNext ==
  \/ \E o \in 1..(MaxStarts + MaxChecks) : TimerFires(o)
  \/ \E i \in 1..MaxChecks, response \in StatusInputs \cup {"rejected"} :
       StatusReturns(i, response)
  \/ \E i \in 1..MaxChecks, status \in {expectedStatus, NoHealthResult} :
       HealthReturns(i, status)
  \/ \E i \in 1..MaxChecks, response \in {"ok", "error"} :
       AlertReturns(i, response)

SamplesSpec == SamplesInit /\ [][SamplesNext]_vars

----------------------------------------------------------------------------
\* Callers that start and stop the monitoring of a deployment; the
\* deployment has no health endpoint and its status requests return

\* startMonitoring and subscribe called for a deployment that is monitored
\* already or not
StartMonitoringAgain(id) ==
  /\ Len(CallerStarts) < MaxStarts
  /\ healthMonitor.checksStarted < MaxChecks
  /\ Commit(subscribe(startMonitoring(World, id,
              [healthEndpoint |-> FALSE, autoRollback |-> TRUE,
               maxRetries |-> NotGiven, expectedStatus |-> NotGiven]), id))
  /\ UNCHANGED <<cancelInFlight, cancelsStarted, serverDeployments>>

\* stopMonitoring called by a caller
StopMonitoring(id) ==
  /\ Commit([stopMonitoring(World, id) EXCEPT
               !.monitors.idleStop = @ \/ healthMonitor.activeMonitors[id] = 0])
  /\ UNCHANGED <<cancelInFlight, cancelsStarted, serverDeployments>>

LifecycleNext ==
  \/ \E id \in DeploymentIds : StartMonitoringAgain(id)
  \/ \E id \in MonitorIds : StopMonitoring(id)
  \/ \E o \in 1..(MaxStarts + MaxChecks) : TimerFires(o)
  \/ \E i \in 1..MaxChecks, response \in StatusInputs :
       StatusReturns(i, response)
  \/ \E i \in 1..MaxChecks, response \in {"ok", "error"} :
       AlertReturns(i, response)

LifecycleSpec == MonitorInit /\ [][LifecycleNext]_vars

----------------------------------------------------------------------------
\* Two deployments that are monitored side by side and stopped by callers

HistoryNext ==
  \/ \E id \in MonitorIds : StartMonitoring(id, FALSE, NotGiven)
  \/ \E id \in MonitorIds : StopMonitoring(id)
  \/ \E o \in 1..(MaxStarts + MaxChecks) : TimerFires(o)
  \/ \E i \in 1..MaxChecks, response \in StatusInputs :
       StatusReturns(i, response)
  \/ \E i \in 1..MaxChecks : HealthReturns(i, expectedStatus)
  \/ \E i \in 1..MaxChecks : AlertReturns(i, "ok")

HistorySpec == MonitorInit /\ [][HistoryNext]_vars

----------------------------------------------------------------------------
\* The health_check stage of the pipeline together with the monitor it
\* starts: the stages before it succeed, and the promise the stage awaits
\* is settled by the callback it has subscribed or by its one-minute timer.
\* The probe answers with the expected status or fails, and the alerts of
\* the monitor are delivered.

\* The pipeline task is suspended in DeploymentPipeline.performHealthCheck
AwaitsHealth(d) ==
  /\ pc[d].at = "stage"
  /\ deployments[d].currentStage = DEPLOYMENT_STAGES.HEALTH_CHECK

\* The results the monitor has given to the callback of d, in order
DeliveredTo(d) ==
  SelectSeq(healthMonitor.delivered, LAMBDA r : r.deploymentId = d)

\* A stage before the health_check stage succeeds
StageSucceeds(d, response) ==
  /\ ~AwaitsHealth(d)
  /\ StageReturns(d, response)

\* The task resumes after the callback has settled the promise: with a
\* healthy result it resolved it, with an error result it rejected it, and
\* in both cases it cleared the timer and unsubscribed
HealthSettled(d) ==
  /\ AwaitsHealth(d)
  /\ ~healthMonitor.subscribers[d]
  /\ LET given == DeliveredTo(d)
         result == given[Len(given)]
     IN StageReturns(d, CASE result.status = "healthy" -> "healthy"
                          [] result.status = "error" -> "health_error")

HealthTimeout_NotCleared(d) ==
  /\ AwaitsHealth(d)
  /\ StageReturns(d, "timeout")

\* The one-minute timer fires, which the callback has not cleared
HealthTimeout(d) ==
  /\ AwaitsHealth(d)
  /\ healthMonitor.subscribers[d]
  /\ StageReturns(d, "timeout")

HealthStageNext ==
  \/ \E d \in DeploymentIds, autoRollback \in {"unset", "false"} :
       StartDeployment(d, "vercel", autoRollback, "false")
  \/ \E d \in DeploymentIds, response \in {"ok", "nextjs"} :
       StageSucceeds(d, response)
  \/ \E d \in DeploymentIds : HealthSettled(d)
  \/ \E d \in DeploymentIds : HealthTimeout(d)
  \/ \E o \in 1..(MaxStarts + MaxChecks) : TimerFires(o)
  \/ \E i \in 1..MaxChecks, response \in StatusInputs \cup {"rejected"} :
       StatusReturns(i, response)
  \/ \E i \in 1..MaxChecks, status \in {expectedStatus, NoHealthResult} :
       HealthReturns(i, status)
  \/ \E i \in 1..MaxChecks : AlertReturns(i, "ok")

HealthStageSpec == MonitorInit /\ [][HealthStageNext]_vars

\* The timer of the stage fires after one minute unless it was cleared, and
\* the task resumes once its promise is settled
HealthStageFairness ==
  \A d \in DeploymentIds : WF_vars(HealthSettled(d) \/ HealthTimeout(d))

HealthStageFairSpec == HealthStageSpec /\ HealthStageFairness

\* The pipeline of a project with two earlier deployments and one more
\* provider to choose, when no deployment is cancelled
WideNext ==
  \/ \E d \in DeploymentIds, provider \in WideProviderInputs,
        autoRollback \in FlagInputs, runTests \in FlagInputs :
       StartDeployment(d, provider, autoRollback, runTests)
  \/ \E d \in DeploymentIds, response \in UNION {Responses(s) : s \in StageNames} :
       StageReturns(d, response)
  \/ \E d \in DeploymentIds, ok \in BOOLEAN : RollbackLookupReturns(d, ok)
  \/ \E d \in DeploymentIds, ok \in BOOLEAN : RollbackCallReturns(d, ok)
  \/ \E d \in DeploymentIds, ok \in BOOLEAN : UpdateProjectReturns(d, ok)

WideSpec == WideInit /\ [][WideNext]_vars

----------------------------------------------------------------------------
\* Vocabulary of the properties

Terminal == {"success", "failed", "cancelled"}
PipelineStages == StageNames \ {"rolling_back"}
NoTarget == "No previous successful deployment found for rollback"

Started(d) == d \in activeDeployments \cup deploymentHistory

\* getDeploymentStatus
getDeploymentStatus(d) == IF Started(d) THEN deployments[d] ELSE NoDeployment

\* The stages of the running events published for d, in order
StartedStages(d) ==
  LET run == SelectSeq(events[d],
                       LAMBDA e : e.kind = "stage" /\ e.status = "running")
  IN [i \in 1..Len(run) |-> run[i].stage]

IsPrefix(s, t) == Len(s) <= Len(t) /\ \A i \in 1..Len(s) : s[i] = t[i]

\* The stage order the specification gives for a deployment's options
PlannedStages(options) ==
  <<"initializing", "cloning", "analyzing", "installing">>
  \o (IF options.runTests THEN <<"testing">> ELSE <<>>)
  \o <<"building">>
  \o (IF options.provider \in {"aws", "gcp", "digitalocean"}
      THEN <<"containerizing", "pushing">> ELSE <<>>)
  \o <<"deploying", "health_check">>

PipelineStageFailed(d) ==
  \E s \in PipelineStages : deployments[d].stages[s].status = "failed"

PriorSuccessIds(d) ==
  {serverDeployments[i].deploymentId : i \in
     {j \in 1..Len(serverDeployments) :
        /\ serverDeployments[j].status = "success"
        /\ serverDeployments[j].deploymentId # d}}

\* The error handling of the pipeline task has passed its rollback attempt
ErrorHandled(d) == PipelineStageFailed(d) /\ pc[d].at \in {"update_failed", "done"}

----------------------------------------------------------------------------
\* C1: the pipeline stages of a deployment are started in the fixed order:
\* at every moment the started stages are a prefix of the planned order for
\* its options (testing iff runTests, containerizing and pushing iff the
\* provider is of type container), a successful deployment has started all
\* of them, and only rolling_back may follow them.
C1_StageOrder ==
  \A d \in DeploymentIds :
    Started(d) =>
      LET run == StartedStages(d)
          pipeline == SelectSeq(run, LAMBDA s : s # "rolling_back")
          planned == PlannedStages(deployments[d].options)
      IN /\ IsPrefix(pipeline, planned)
         /\ deployments[d].status = "success" => run = planned
         /\ \A i \in 1..Len(run) : run[i] = "rolling_back" => i = Len(run)
         /\ \A s \in PipelineStages :
              deployments[d].stages[s].status # "absent"
                <=> \E i \in 1..Len(pipeline) : pipeline[i] = s

C1_Witness ==
  \E d \in DeploymentIds :
    /\ deployments[d].status = "success"
    /\ ~deployments[d].options.runTests
    /\ deployments[d].stages["pushing"].status = "success"
    /\ deployments[d].stages["testing"].status = "absent"

----------------------------------------------------------------------------
\* C2 (as stated): after a stage failure with auto-rollback enabled and
\* another successful deployment of the project, the deployment has a
\* rolling_back stage, ends failed, and a rollback call naming that
\* deployment has been issued (stated here for deployments that are not
\* cancelled).
C2_AlwaysRollsBack ==
  \A d \in DeploymentIds :
    (ErrorHandled(d) /\ deployments[d].options.autoRollback
       /\ PriorSuccessIds(d) # {} /\ deployments[d].status # "cancelled") =>
      /\ deployments[d].stages["rolling_back"].status # "absent"
      /\ deployments[d].status = "failed"
      /\ Len(rollbackCalls[d]) = 1
      /\ rollbackCalls[d][1] \in PriorSuccessIds(d)

\* C2 (amended): the same, for a deployment that is not cancelled; the
\* rollback call is missing only when the history lookup itself failed, and
\* then the rolling_back stage records that request error.
C2_RollsBackUnlessLookupFails ==
  \A d \in DeploymentIds :
    (ErrorHandled(d) /\ deployments[d].options.autoRollback
       /\ PriorSuccessIds(d) # {} /\ deployments[d].status # "cancelled") =>
      LET rb == deployments[d].stages["rolling_back"]
      IN /\ rb.status \in {"success", "failed"}
         /\ deployments[d].status = "failed"
         /\ \/ /\ Len(rollbackCalls[d]) = 1
               /\ rollbackCalls[d][1] \in PriorSuccessIds(d)
            \/ /\ rollbackCalls[d] = <<>>
               /\ rb.status = "failed"
               /\ rb.error = "Request failed"

C2_Witness ==
  \E d \in DeploymentIds :
    /\ deployments[d].stages["building"].status = "failed"
    /\ deployments[d].stages["rolling_back"].status = "success"
    /\ deployments[d].status = "failed"
    /\ rollbackCalls[d] = <<"old-1">>

----------------------------------------------------------------------------
\* C3 (as stated): after a stage failure in a deployment whose project has
\* no other successful deployment, the deployment ends failed with the
\* 'no rollback target' error recorded, and no rollback call is issued
\* (stated here for deployments that are not cancelled).
C3_NoTargetRecorded ==
  \A d \in DeploymentIds :
    (ErrorHandled(d) /\ PriorSuccessIds(d) = {}
       /\ deployments[d].status # "cancelled") =>
      /\ deployments[d].status = "failed"
      /\ deployments[d].stages["rolling_back"].error = NoTarget
      /\ rollbackCalls[d] = <<>>

\* C3 (amended): with no other successful deployment no rollback call is
\* ever issued; and with auto-rollback enabled a deployment that is not
\* cancelled ends failed with a failed rolling_back stage, whose error is
\* the 'no rollback target' error unless the history lookup itself failed.
C3_NoTargetNoCall ==
  \A d \in DeploymentIds :
    PriorSuccessIds(d) = {} =>
      /\ rollbackCalls[d] = <<>>
      /\ (ErrorHandled(d) /\ deployments[d].options.autoRollback
            /\ deployments[d].status # "cancelled") =>
           /\ deployments[d].status = "failed"
           /\ deployments[d].stages["rolling_back"].status = "failed"
           /\ deployments[d].stages["rolling_back"].error
                \in {NoTarget, "Request failed"}

C3_Witness ==
  \E d \in DeploymentIds :
    /\ deployments[d].status = "failed"
    /\ deployments[d].stages["rolling_back"].error = NoTarget
    /\ \E i \in 1..Len(serverDeployments) :
         serverDeployments[i] = [deploymentId |-> d, status |-> "success"]
    /\ rollbackCalls[d] = <<>>

----------------------------------------------------------------------------
\* C4 (as stated): after a stage failure the deployment has a rolling_back
\* stage result iff auto-rollback is enabled and another successful
\* deployment of the project exists.
C4_RollbackIffTarget ==
  \A d \in DeploymentIds :
    (PipelineStageFailed(d) /\ deployments[d].status # "cancelled") =>
      (deployments[d].stages["rolling_back"].status # "absent"
         <=> (deployments[d].options.autoRollback /\ PriorSuccessIds(d) # {}))

\* C4 (amended): after a stage failure in a deployment that is not
\* cancelled, the deployment has a rolling_back stage result iff
\* auto-rollback is enabled, whether or not a rollback target exists.
C4_RollbackIffEnabled ==
  \A d \in DeploymentIds :
    /\ deployments[d].stages["rolling_back"].status # "absent" =>
         (PipelineStageFailed(d) /\ deployments[d].options.autoRollback)
    /\ (PipelineStageFailed(d) /\ deployments[d].status # "cancelled") =>
         (deployments[d].stages["rolling_back"].status # "absent"
            <=> deployments[d].options.autoRollback)

C4_Witness ==
  \E d \in DeploymentIds :
    /\ deployments[d].status = "failed"
    /\ PriorSuccessIds(d) = {}
    /\ deployments[d].stages["rolling_back"].status = "failed"

----------------------------------------------------------------------------
\* C5: a terminal status is never changed by a later step.
C5_TerminalStatusKept ==
  [][\A d \in DeploymentIds :
       deployments[d].status \in Terminal =>
         deployments'[d].status = deployments[d].status]_vars

\* The pipeline ran to its end and called completeDeployment(success) on a
\* deployment a cancel had completed before
C5_Witness ==
  \E d \in DeploymentIds :
    /\ deployments[d].status = "cancelled"
    /\ deployments[d].stages["health_check"].status = "success"
    /\ pc[d].at = "done"

----------------------------------------------------------------------------
\* C6: when every collaborator call eventually returns or fails, a started
\* deployment eventually leaves the active set for the history with a
\* terminal status.
C6_EventuallyTerminal ==
  \A d \in DeploymentIds :
    (d \in activeDeployments) ~>
      (/\ d \notin activeDeployments
       /\ d \in deploymentHistory
       /\ deployments[d].status \in Terminal)

\* The health_check stage was ended by its one-minute timer
C6_Witness ==
  \E d \in DeploymentIds :
    /\ deployments[d].stages["health_check"].error = "Health check timeout"
    /\ deployments[d].status = "failed"
    /\ d \in deploymentHistory /\ d \notin activeDeployments

----------------------------------------------------------------------------
\* C7: while a stage is running, the status of the deployment returned by
\* getDeploymentStatus is that stage.
C7_StatusIsRunningStage ==
  \A d \in activeDeployments :
    \A s \in StageNames :
      getDeploymentStatus(d).stages[s].status = "running" =>
        getDeploymentStatus(d).status = s

----------------------------------------------------------------------------
\* The completeDeployment call that moved d to the history has returned
CompletionReturned(d) ==
  /\ d \in deploymentHistory
  /\ pc[d].at \notin {"update_success", "update_failed"}
  /\ ~cancelUpdating[d]

FinalEvents(d) == SelectSeq(events[d], LAMBDA e : e.kind = "final")

\* C8: once the completion of a deployment has returned, exactly one final
\* event has been published and it carries the terminal status, whatever
\* the outcome of the updateProject call.
C8_FinalEventPublished ==
  \A d \in DeploymentIds :
    CompletionReturned(d) =>
      FinalEvents(d) = <<FinalEvent(deployments[d].status)>>

----------------------------------------------------------------------------
RunningIdx(d, s) ==
  {i \in 1..Len(events[d]) : events[d][i] = StageEvent(s, "running", "none")}

EndIdx(d, s) ==
  {i \in 1..Len(events[d]) :
     /\ events[d][i].kind = "stage"
     /\ events[d][i].stage = s
     /\ events[d][i].status \in {"success", "failed"}}

\* C9: a failed stage has its error message in its result, was started
\* exactly once, and no stage other than rolling_back was started after it.
C9_FailureAborts ==
  \A d \in DeploymentIds :
    \A s \in StageNames :
      deployments[d].stages[s].status = "failed" =>
        /\ deployments[d].stages[s].error # "none"
        /\ Cardinality(RunningIdx(d, s)) = 1
        /\ \A i \in RunningIdx(d, s) :
             \A j \in (i + 1)..Len(events[d]) :
               (events[d][j].kind = "stage" /\ events[d][j].status = "running")
                 => (events[d][j].stage = "rolling_back" /\ s # "rolling_back")

C9_Witness ==
  \E d \in DeploymentIds :
    /\ deployments[d].stages["building"].status = "failed"
    /\ deployments[d].stages["building"].error = "Request failed"
    /\ deployments[d].stages["rolling_back"].status = "failed"
    /\ pc[d].at = "done"

----------------------------------------------------------------------------
\* C10: every started stage has exactly one running event; once the stage
\* has ended it has exactly one success or failed event, published after
\* the running event and carrying the status of the stage result; before
\* that it has none.
C10_StageEvents ==
  \A d \in DeploymentIds :
    \A s \in StageNames :
      LET result == deployments[d].stages[s]
      IN /\ result.status = "absent" =>
              (RunningIdx(d, s) = {} /\ EndIdx(d, s) = {})
         /\ result.status = "running" =>
              (Cardinality(RunningIdx(d, s)) = 1 /\ EndIdx(d, s) = {})
         /\ result.status \in {"success", "failed"} =>
              /\ Cardinality(RunningIdx(d, s)) = 1
              /\ Cardinality(EndIdx(d, s)) = 1
              /\ \A i \in RunningIdx(d, s), j \in EndIdx(d, s) :
                   /\ i < j
                   /\ events[d][j].status = result.status
                   /\ events[d][j].error = result.error

C10_Witness ==
  \E d \in DeploymentIds :
    /\ deployments[d].stages["rolling_back"].status = "failed"
    /\ deployments[d].stages["testing"].status = "failed"
    /\ deployments[d].stages["installing"].status = "success"
    /\ Len(events[d]) = 12

----------------------------------------------------------------------------
\* The successful deployments of the project other than d, latest first
MostRecentSuccess(d) ==
  {id \in PriorSuccessIds(d) :
     \A other \in PriorSuccessIds(d) : startTime(other) <= startTime(id)}

\* C11: the rollback performed after a stage failure targets the most
\* recent deployment of the project, other than the failing one, whose
\* status is success.
C11_TargetsMostRecent ==
  \A d \in DeploymentIds :
    \A i \in 1..Len(rollbackCalls[d]) :
      rollbackCalls[d][i] \in MostRecentSuccess(d)

----------------------------------------------------------------------------
RunningStages(d) ==
  {s \in StageNames : deployments[d].stages[s].status = "running"}

\* A step in a deployment marked cancelled starts no stage, and ends a
\* running stage only by giving it a result with an end time
CancelledStep(d) ==
  deployments[d].status = "cancelled" =>
    \A s \in StageNames :
      LET before == deployments[d].stages[s]
          after == deployments'[d].stages[s]
      IN /\ after.status = "running" => before.status = "running"
         /\ before.status = "running" =>
              \/ after = before
              \/ (after.status \in {"success", "failed"} /\ after.ended)

\* The step that marks a deployment cancelled leaves its stage results and
\* its suspended pipeline task as they are
CancellingStep(d) ==
  (deployments[d].status # "cancelled" /\ deployments'[d].status = "cancelled") =>
    /\ deployments'[d].stages = deployments[d].stages
    /\ deployments'[d].currentStage = deployments[d].currentStage
    /\ pc'[d] = pc[d]

\* C12: after cancelDeployment has marked a deployment cancelled no further
\* stage is started for it; the stage in flight at that moment is not
\* interrupted: it stays running through the cancellation and, when every
\* collaborator call eventually returns or fails, it runs to its end.
C12_NoStageAfterCancel ==
  /\ [][\A d \in DeploymentIds : CancelledStep(d) /\ CancellingStep(d)]_vars
  /\ \A d \in DeploymentIds :
       (deployments[d].status = "cancelled" /\ RunningStages(d) # {})
         ~> (RunningStages(d) = {})

\* The building stage was in flight when the deployment was cancelled, ended
\* after it, and the deploying stage was never started
C12_Witness ==
  \E d \in DeploymentIds :
    /\ deployments[d].status = "cancelled"
    /\ pc[d].at = "done"
    /\ deployments[d].stages["deploying"].status = "absent"
    /\ \E i, j \in 1..Len(deployments[d].logs) :
         /\ i < j
         /\ deployments[d].logs[i].message = "Deployment cancelled by user"
         /\ deployments[d].logs[j].message = "Completed stage"
         /\ deployments[d].logs[j].stage = "building"

----------------------------------------------------------------------------
\* C13: the events of a deployment are published in execution order with
\* the final status event last: no event of the deployment follows its
\* final status event, however cancelDeployment interleaves with a stage in
\* flight.
C13_FinalEventLast ==
  \A d \in DeploymentIds :
    \A i \in 1..Len(events[d]) :
      events[d][i].kind = "final" => i = Len(events[d])

----------------------------------------------------------------------------
\* C14: at every state each deployment id that startDeployment has been
\* called for is in exactly one of activeDeployments and deploymentHistory,
\* in activeDeployments iff its status is not terminal (so the move on
\* completion is one step, with no state where the id is in both or in
\* neither); an id not yet started is in neither.
C14_OneRegistry ==
  \A d \in DeploymentIds :
    IF pc[d].at = "idle"
    THEN d \notin activeDeployments \cup deploymentHistory
    ELSE /\ d \in activeDeployments \cup deploymentHistory
         /\ d \notin activeDeployments \cap deploymentHistory
         /\ d \in activeDeployments <=> deployments[d].status \notin Terminal
         /\ d \in deploymentHistory <=> deployments[d].ended

\* The deployment was moved to the history by a cancellation while its
\* pipeline task was suspended in a stage
C14_Witness ==
  \E d \in DeploymentIds :
    /\ d \in deploymentHistory
    /\ d \notin activeDeployments
    /\ deployments[d].status = "cancelled"
    /\ pc[d].at = "stage"

----------------------------------------------------------------------------
\* C15: within one deployment at most one stage result has status running,
\* and while a stage is running every other stage that was started has a
\* result of success or failed with an end time: no stage is started before
\* the previous one has got its result.
C15_OneStageRunning ==
  \A d \in DeploymentIds :
    /\ Cardinality(RunningStages(d)) <= 1
    /\ \A s \in StageNames :
         LET result == deployments[d].stages[s]
         IN /\ result.status \in {"absent", "running", "success", "failed"}
            /\ result.ended <=> result.status \in {"success", "failed"}

\* The rolling_back stage runs after the stages before it have ended
C15_Witness ==
  \E d \in DeploymentIds :
    /\ RunningStages(d) = {"rolling_back"}
    /\ deployments[d].stages["containerizing"].status = "failed"
    /\ deployments[d].stages["containerizing"].ended
    /\ deployments[d].stages["building"].status = "success"
    /\ deployments[d].stages["building"].ended

----------------------------------------------------------------------------
\* A deployment with tests disabled on a serverless provider, nobody asked
\* to cancel it and none of its stages failed: every call of its stages
\* succeeded and the first health check result was healthy
HappyPath(d) ==
  /\ pc[d].at # "idle"
  /\ ~deployments[d].options.runTests
  /\ deployments[d].options.provider \in DOMAIN CLOUD_PROVIDERS
  /\ CLOUD_PROVIDERS[deployments[d].options.provider].type = "serverless"
  /\ cancelsStarted[d] = 0
  /\ \A s \in StageNames : deployments[d].stages[s].status # "failed"

HappyStages ==
  <<"initializing", "cloning", "analyzing", "installing", "building",
    "deploying", "health_check">>

\* C16: when every collaborator call succeeds, tests are disabled, the
\* provider is serverless and the first health check result is healthy, the
\* deployment runs exactly the stages initializing, cloning, analyzing,
\* installing, building, deploying, health_check, each ending success, and
\* ends with status success and no rolling_back stage.
C16_HappyPath ==
  \A d \in DeploymentIds :
    HappyPath(d) =>
      /\ IsPrefix(StartedStages(d), HappyStages)
      /\ pc[d].at \in {"update_success", "done"} =>
           /\ StartedStages(d) = HappyStages
           /\ \A s \in StageNames :
                deployments[d].stages[s].status =
                  IF \E i \in 1..Len(HappyStages) : HappyStages[i] = s
                  THEN "success" ELSE "absent"
           /\ deployments[d].status = "success"
           /\ d \in deploymentHistory

C16_Witness ==
  \E d \in DeploymentIds :
    /\ HappyPath(d)
    /\ pc[d].at = "done"
    /\ deployments[d].options.provider = "vercel"
    /\ deployments[d].stages["health_check"].status = "success"
    /\ deployments[d].status = "success"
    /\ events[d][Len(events[d])] = FinalEvent("success")

----------------------------------------------------------------------------
\* The provider of d is unknown, or the framework detected for d is unknown
\* or not among those its provider supports
Misconfigured(d) ==
  LET provider == deployments[d].options.provider
      framework == deployments[d].framework
  IN /\ pc[d].at # "idle"
     /\ \/ provider \notin DOMAIN CLOUD_PROVIDERS
        \/ /\ framework # "none"
           /\ \/ framework \notin FRAMEWORK_CONFIGS
              \/ /\ provider \in DOMAIN CLOUD_PROVIDERS
                 /\ framework \notin CLOUD_PROVIDERS[provider].supports

\* C17: a deployment whose provider is unknown, whose detected framework is
\* unknown, or whose detected framework its provider does not support,
\* never reaches the deploying stage (the cloud provider deploy call) and,
\* unless it is cancelled, ends failed.
C17_UnsupportedNeverDeployed ==
  \A d \in DeploymentIds :
    Misconfigured(d) =>
      /\ deployments[d].stages["deploying"].status = "absent"
      /\ pc[d].at = "done" => deployments[d].status \in {"failed", "cancelled"}

----------------------------------------------------------------------------
\* Vocabulary of the monitor's properties

Monitors == 1..Len(healthMonitor.objects)

\* The statuses of the results the monitor object o has produced, in order
ResultsOf(o) ==
  LET own == SelectSeq(healthMonitor.healthChecks, LAMBDA r : r.monitor = o)
  IN [k \in 1..Len(own) |-> own[k].status]

\* The number of results after the last healthy one
FailuresSinceHealthy(results) ==
  LET healthy == {k \in 1..Len(results) : results[k] = "healthy"}
  IN IF healthy = {} THEN Len(results)
     ELSE Len(results) - (CHOOSE k \in healthy : \A j \in healthy : j <= k)

\* The checks in flight that hold the monitor object o
ChecksOf(o) ==
  {i \in 1..Len(healthMonitor.checks) : healthMonitor.checks[i].monitor = o}

\* The rollback requests made by checks of the monitor object o
RollbacksOf(o) ==
  SelectSeq(healthMonitor.rollbacks, LAMBDA r : r.monitor = o)

\* C18: the consecutive-failure counter of a monitor equals the number of
\* its results since its last healthy result: every healthy result resets
\* it to 0, every unhealthy and every error result adds exactly 1.
C18_RetriesCountFailures ==
  \A o \in Monitors :
    healthMonitor.objects[o].retries = FailuresSinceHealthy(ResultsOf(o))

C18_Witness ==
  \E o \in Monitors :
    /\ ResultsOf(o) = <<"unhealthy", "healthy", "error">>
    /\ healthMonitor.objects[o].retries = 1

----------------------------------------------------------------------------
\* C19: a monitor started with autoRollback in its options asks for a
\* rollback at the check that brings its counter to the threshold and not
\* before: once a check with an unhealthy result has returned with the
\* counter at the threshold or above, a rollback has been requested, and
\* none is requested by a monitor that has had fewer failures than its
\* threshold.
C19_RollbackAtThreshold ==
  \A o \in Monitors :
    healthMonitor.started[o].autoRollback =>
      LET m == healthMonitor.objects[o]
      IN /\ (m.status = "unhealthy" /\ m.retries >= m.maxRetries
               /\ ChecksOf(o) = {}) => RollbacksOf(o) # <<>>
         /\ RollbacksOf(o) # <<>> => m.errorCount >= m.maxRetries

----------------------------------------------------------------------------
----------------------------------------------------------------------------
\* C21: when the rollback call of triggerAutoRollback succeeds, the monitor
\* of the failing deployment is removed and the monitor started on the
\* rollback deployment has auto-rollback disabled; no rollback is ever
\* requested on behalf of a rollback deployment, so that a chain of
\* rollbacks triggered by the monitor has length at most one.
C21_RollbackEndsTheChain ==
  /\ [][\A i \in 1..MaxChecks, r \in RollbackIds \cup {"none"} :
          MonitorRollbackReturns(i, r) =>
            /\ healthMonitor'.activeMonitors[healthMonitor.checks[i].deploymentId] = 0
            /\ r \in RollbackIds =>
                 /\ healthMonitor'.activeMonitors[r] # 0
                 /\ ~healthMonitor'.objects[healthMonitor'.activeMonitors[r]].autoRollback]_vars
  /\ [](\A o \in Monitors :
          healthMonitor.objects[o].deploymentId \in RollbackIds =>
            /\ ~healthMonitor.objects[o].autoRollback
            /\ RollbacksOf(o) = <<>>)

C21_Witness ==
  /\ healthMonitor.rollbacks # <<>>
  /\ \A id \in DeploymentIds : healthMonitor.activeMonitors[id] = 0
  /\ \E r \in RollbackIds :
       /\ healthMonitor.activeMonitors[r] # 0
       /\ LET m == healthMonitor.objects[healthMonitor.activeMonitors[r]]
          IN m.retries >= m.maxRetries

----------------------------------------------------------------------------
\* The alert requests made by checks of the monitor object o
AlertsOf(o) ==
  SelectSeq(healthMonitor.alerts, LAMBDA a : a.monitor = o)

\* The number of results of the monitor object o that are not healthy
Failures(o) ==
  Cardinality({k \in 1..Len(ResultsOf(o)) : ResultsOf(o)[k] # "healthy"})

\* C22: every check that puts the monitor into status unhealthy or status
\* error sends an alert: a monitor has requested as many alerts as it has
\* results that are not healthy.
C22_AlertPerFailure ==
  \A o \in Monitors : Len(AlertsOf(o)) = Failures(o)

----------------------------------------------------------------------------
\* C23: a failed alert delivery does not stop monitoring: at the step where
\* the alert request of a check fails the registry, the timer of the
\* monitor, its counters and the stored results stay as they are, and the
\* threshold test is made: a rollback is requested exactly when the counter
\* is at the threshold or above and auto-rollback is set on the monitor.
C23_FailedAlertKeepsMonitoring ==
  [][\A i \in 1..MaxChecks :
       AlertReturns(i, "error") =>
         LET o == healthMonitor.checks[i].monitor
             m == healthMonitor.objects[o]
             n == healthMonitor'.objects[o]
         IN /\ healthMonitor'.activeMonitors = healthMonitor.activeMonitors
            /\ n.intervalId = m.intervalId
            /\ n.retries = m.retries
            /\ n.errorCount = m.errorCount
            /\ n.successCount = m.successCount
            /\ healthMonitor'.healthChecks = healthMonitor.healthChecks
            /\ (m.retries >= m.maxRetries /\ m.autoRollback)
                 <=> Len(healthMonitor'.rollbacks) = Len(healthMonitor.rollbacks) + 1]_vars

C23_Witness ==
  \E k \in 1..Len(healthMonitor.alerts) :
    LET a == healthMonitor.alerts[k]
        m == healthMonitor.objects[a.monitor]
    IN /\ a.outcome = "failed"
       /\ a.severity = "critical"
       /\ healthMonitor.activeMonitors[a.deploymentId] = a.monitor
       /\ m.intervalId
       /\ RollbacksOf(a.monitor) # <<>>

----------------------------------------------------------------------------
\* C24: a check that evaluates its answers is unhealthy when the deployment
\* status is failed or error, healthy for any other status that is not
\* running, and for the status running healthy exactly when the status of
\* the probe equals the expected status of the monitor, or when the monitor
\* has no health endpoint.
C24_EvaluateHealth ==
  \A k \in 1..Len(healthMonitor.healthChecks) :
    LET r == healthMonitor.healthChecks[k]
        m == healthMonitor.objects[r.monitor]
    IN r.status \in {"healthy", "unhealthy"} =>
         ((r.status = "healthy") <=>
            CASE r.deploymentStatus \in {"failed", "error"} -> FALSE
              [] r.deploymentStatus \notin {"failed", "error", "running"} -> TRUE
              [] r.deploymentStatus = "running" /\ m.healthEndpoint ->
                   r.healthResult = m.expectedStatus
              [] OTHER -> TRUE)

C24_Witness ==
  \E k \in 1..Len(healthMonitor.healthChecks) :
    LET r == healthMonitor.healthChecks[k]
        m == healthMonitor.objects[r.monitor]
    IN /\ r.deploymentStatus = "running" /\ m.healthEndpoint
       /\ m.expectedStatus = 204 /\ r.healthResult = 204
       /\ r.status = "healthy"

----------------------------------------------------------------------------
\* The results of the initial checks of the monitors a caller started
InitialResults ==
  {k \in 1..Len(healthMonitor.healthChecks) :
     /\ healthMonitor.healthChecks[k].initial
     /\ healthMonitor.healthChecks[k].deploymentId \in DeploymentIds}

WasDelivered(result) ==
  \E j \in 1..Len(healthMonitor.delivered) : healthMonitor.delivered[j] = result

\* The callback had been given another result that made it unsubscribe
HadUnsubscribed(result) ==
  \E j \in 1..Len(healthMonitor.delivered) :
    /\ healthMonitor.delivered[j] # result
    /\ healthMonitor.delivered[j].deploymentId = result.deploymentId
    /\ healthMonitor.delivered[j].status \in {"healthy", "error"}

\* startMonitoring leaves a check of the new monitor in flight
StartsInitialCheck ==
  [][\A id \in DeploymentIds :
       (healthMonitor.activeMonitors[id] = 0
          /\ healthMonitor'.activeMonitors[id] # 0) =>
         \E i \in 1..Len(healthMonitor'.checks) :
           /\ healthMonitor'.checks[i].monitor = healthMonitor'.activeMonitors[id]
           /\ healthMonitor'.checks[i].initial
           /\ healthMonitor'.checks[i].at = "status"]_vars

----------------------------------------------------------------------------
\* The response-time samples of the results of the monitor object o, in the
\* order in which they were taken (an error result has no sample)
SamplesOf(o) ==
  LET own == SelectSeq(healthMonitor.healthChecks,
                       LAMBDA r : r.monitor = o
                                  /\ r.status \in {"healthy", "unhealthy"})
  IN [k \in 1..Len(own) |-> own[k].responseTime]

\* C26: the response-time sample list of a monitor never has more than 100
\* entries, and it holds the most recent samples, in the order in which
\* they were taken.
C26_SamplesCapped ==
  \A o \in Monitors :
    LET taken == SamplesOf(o)
        kept == healthMonitor.objects[o].responseTime
    IN /\ Len(kept) <= ResponseTimeCap
       /\ Len(kept) = IF Len(taken) > ResponseTimeCap
                      THEN ResponseTimeCap ELSE Len(taken)
       /\ kept = SubSeq(taken, Len(taken) - Len(kept) + 1, Len(taken))

C26_Witness ==
  \E o \in Monitors :
    /\ Len(SamplesOf(o)) > ResponseTimeCap + 1
    /\ Len(healthMonitor.objects[o].responseTime) = ResponseTimeCap
    /\ healthMonitor.objects[o].responseTime[1] > 2

----------------------------------------------------------------------------
\* C27: stopMonitoring called for a deployment id that has no monitor,
\* because none was started or because it was stopped before, changes
\* neither the registry nor the monitors, the stored results or the
\* subscriptions, and reports no error.
C27_StopIsIdempotent ==
  [][\A id \in MonitorIds :
       (healthMonitor.activeMonitors[id] = 0 /\ StopMonitoring(id)) =>
         /\ healthMonitor'.activeMonitors = healthMonitor.activeMonitors
         /\ healthMonitor'.objects = healthMonitor.objects
         /\ healthMonitor'.healthChecks = healthMonitor.healthChecks
         /\ healthMonitor'.subscribers = healthMonitor.subscribers
         /\ healthMonitor'.delivered = healthMonitor.delivered
         /\ errorLog' = errorLog]_vars

C27_Witness ==
  /\ healthMonitor.idleStop
  /\ healthMonitor.started # <<>>
  /\ healthMonitor.healthChecks # <<>>
  /\ \E id \in DeploymentIds : healthMonitor.subscribers[id]
  /\ \A id \in MonitorIds : healthMonitor.activeMonitors[id] = 0

----------------------------------------------------------------------------
\* What the monitor has stored, delivered, sent and requested for id
OutputsFor(monitor, id) ==
  [results |-> SelectSeq(monitor.healthChecks, LAMBDA r : r.deploymentId = id),
   delivered |-> SelectSeq(monitor.delivered, LAMBDA r : r.deploymentId = id),
   alerts |-> SelectSeq(monitor.alerts, LAMBDA a : a.deploymentId = id),
   rollbacks |-> SelectSeq(monitor.rollbacks, LAMBDA r : r.target = id)]

\* C28: once stopMonitoring(d) has returned, and until d is monitored
\* again, no result for d is stored or given to a subscriber, no alert is
\* sent and no rollback is requested for d, also when a check of d was in
\* flight at the time of the call.
C28_NothingAfterStop ==
  [][\A id \in DeploymentIds :
       (healthMonitor.activeMonitors[id] = 0
          /\ healthMonitor'.activeMonitors[id] = 0) =>
         OutputsFor(healthMonitor', id) = OutputsFor(healthMonitor, id)]_vars

----------------------------------------------------------------------------
\* The monitor objects of id whose interval timer is live
LiveTimers(id) ==
  {o \in Monitors : /\ healthMonitor.objects[o].deploymentId = id
                    /\ healthMonitor.objects[o].intervalId}

\* C29: at most one interval timer is live for a deployment id, and none
\* is live for an id that has no monitor, whatever startMonitoring and
\* stopMonitoring calls were made.
C29_OneTimer ==
  \A id \in MonitorIds :
    /\ Cardinality(LiveTimers(id)) <= 1
    /\ healthMonitor.activeMonitors[id] = 0 => LiveTimers(id) = {}

----------------------------------------------------------------------------
----------------------------------------------------------------------------
\* C31: a check that ends in status error, because its status request or
\* its health probe failed, counts for auto-rollback: when it brings the
\* counter of a monitor that has auto-rollback set to the threshold, the
\* rollback is requested in the step where that check ends.
C31_ErrorAtThresholdRollsBack ==
  [][\A i \in 1..MaxChecks :
       (StatusReturns(i, "rejected") \/ HealthReturns(i, NoHealthResult)) =>
         LET o == healthMonitor.checks[i].monitor
             m == healthMonitor.objects[o]
         IN (m.autoRollback /\ m.retries + 1 = m.maxRetries) =>
              /\ Len(healthMonitor'.rollbacks) = Len(healthMonitor.rollbacks) + 1
              /\ healthMonitor'.rollbacks[Len(healthMonitor'.rollbacks)].monitor = o]_vars

----------------------------------------------------------------------------
\* The monitor objects whose latest check has ended with a result
Checked ==
  {o \in Monitors : ResultsOf(o) # <<>> /\ ChecksOf(o) = {}}

\* C32: after a completed check, whatever its result, the uptime that
\* getMetrics reports is the percentage of successful checks among the
\* checks counted in the same snapshot (to the two decimals it is given
\* with).
C32_UptimeMatchesCounts ==
  \A id \in MonitorIds :
    healthMonitor.activeMonitors[id] \in Checked =>
      LET metrics == getMetrics(healthMonitor, id)
      IN metrics.uptime = uptime(metrics.successCount, metrics.errorCount)

----------------------------------------------------------------------------
\* C33: stopMonitoring(d) discards the monitor of d only: after the call
\* getMetrics(d) returns null, getHealthHistory returns for d and for every
\* other deployment the records it returned before, and the metrics of the
\* other deployments are as they were.
C33_StopKeepsHistory ==
  [][\A id \in MonitorIds :
       StopMonitoring(id) =>
         /\ getMetrics(healthMonitor', id) = NoMetrics
         /\ \A other \in MonitorIds :
              /\ getHealthHistory(healthMonitor', other, historyLimit) =
                   getHealthHistory(healthMonitor, other, historyLimit)
              /\ other # id =>
                   getMetrics(healthMonitor', other) = getMetrics(healthMonitor, other)]_vars

\* A monitor that had stored results was stopped while the other
\* deployment is monitored and has results of its own
C33_Witness ==
  \E id, other \in MonitorIds :
    /\ id # other
    /\ healthMonitor.activeMonitors[id] = 0
    /\ getMetrics(healthMonitor, id) = NoMetrics
    /\ getHealthHistory(healthMonitor, id, historyLimit) # <<>>
    /\ getMetrics(healthMonitor, other) # NoMetrics
    /\ getHealthHistory(healthMonitor, other, historyLimit) # <<>>

----------------------------------------------------------------------------
\* C34: cancellation is not handled as a failure: in a step taken after
\* cancelDeployment has marked a deployment cancelled the rolling_back
\* stage is not started, no rollback is requested from the cloud provider
\* for it, and its status stays cancelled, whether the stage in flight
\* succeeds or fails.
C34_CancelIsNotAFailure ==
  [][\A d \in DeploymentIds :
       deployments[d].status = "cancelled" =>
         /\ deployments'[d].stages["rolling_back"].status = "running" =>
              deployments[d].stages["rolling_back"].status = "running"
         /\ rollbackCalls'[d] = rollbackCalls[d]
         /\ deployments'[d].status = "cancelled"]_vars

----------------------------------------------------------------------------
\* C35: the record of a deployment in the history is immutable: once the
\* completeDeployment call that moved it there has returned, its stage
\* results and its logs change no more, also when a stage was in flight at
\* the time the deployment was cancelled.
C35_HistoryIsImmutable ==
  [][\A d \in DeploymentIds :
       CompletionReturned(d) =>
         /\ deployments'[d].stages = deployments[d].stages
         /\ deployments'[d].logs = deployments[d].logs]_vars

----------------------------------------------------------------------------
\* C36: the rollback after a stage failure is attempted at most once and is
\* best effort: the rolling_back stage of a deployment is started at most
\* once and at most one rollback is requested from the cloud provider, and
\* when the rolling_back stage has failed a deployment that is not
\* cancelled still ends with status failed.
C36_RollbackOnceBestEffort ==
  \A d \in DeploymentIds :
    /\ Cardinality({i \in 1..Len(StartedStages(d)) :
                      StartedStages(d)[i] = "rolling_back"}) <= 1
    /\ Len(rollbackCalls[d]) <= 1
    /\ (ErrorHandled(d) /\ deployments[d].stages["rolling_back"].status = "failed"
          /\ deployments[d].status # "cancelled") =>
         deployments[d].status = "failed"

\* The rollback call to the cloud provider failed, the updateProject call
\* of the completion failed too, and the deployment has ended failed
C36_Witness ==
  \E d \in DeploymentIds :
    /\ deployments[d].status = "failed"
    /\ deployments[d].stages["rolling_back"].status = "failed"
    /\ rollbackCalls[d] # <<>>
    /\ pc[d].at = "done"
    /\ FinalEvents(d) = <<>>

----------------------------------------------------------------------------
\* C37: a subscriber that registers for a deployment as soon as
\* startDeployment has returned its id observes every stage event of the
\* deployment, the running event of the initializing stage included: at
\* the step in which startDeployment returns no event of the deployment
\* has been published yet.
C37_SubscriberSeesEveryEvent ==
  [][\A d \in DeploymentIds :
       (~Started(d) /\ Started(d)') => events'[d] = <<>>]_vars

----------------------------------------------------------------------------
\* C38: a health monitor stays active for deployments that succeeded only:
\* a deployment whose status is failed or cancelled has no monitor in the
\* registry and no live interval timer.
C38_NoMonitorAfterFailure ==
  \A d \in DeploymentIds :
    deployments[d].status \in {"failed", "cancelled"} =>
      /\ healthMonitor.activeMonitors[d] = 0
      /\ LiveTimers(d) = {}

----------------------------------------------------------------------------
\* The results given to the callback of d that settle its promise
Decisive(d) ==
  SelectSeq(DeliveredTo(d), LAMBDA r : r.status \in {"healthy", "error"})

\* C39: the health_check stage of the pipeline always ends.  It ends with
\* success when the first healthy or error result the monitor has given to
\* it is healthy, it fails with 'Health check failed' when that result is
\* an error, and it fails with 'Health check timeout' when the timer fires
\* before any such result; unhealthy results do not end it.
C39_HealthStageEnds ==
  /\ [][\A d \in DeploymentIds :
          LET before == deployments[d].stages["health_check"]
              after == deployments'[d].stages["health_check"]
          IN (before.status = "running" /\ after # before) =>
               IF Decisive(d) = <<>>
               THEN after.status = "failed" /\ after.error = "Health check timeout"
               ELSE IF Decisive(d)[1].status = "healthy"
               THEN after.status = "success"
               ELSE after.status = "failed" /\ after.error = "Health check failed"]_vars
  /\ \A d \in DeploymentIds :
       (deployments[d].stages["health_check"].status = "running")
         ~> (deployments[d].stages["health_check"].status \in {"success", "failed"})

\* The stage succeeded at a healthy result that followed an unhealthy one
C39_Witness ==
  \E d \in DeploymentIds :
    /\ deployments[d].stages["health_check"].status = "success"
    /\ Len(DeliveredTo(d)) = 2
    /\ DeliveredTo(d)[1].status = "unhealthy"
    /\ DeliveredTo(d)[2].status = "healthy"

====
